---- MODULE Spec2Model ----
(***************************************************************************)
(* Skinova clinic administration: appointment booking with the overlap     *)
(* guard, session counters (ClientPackage / ClientServiceSession), the     *)
(* automatic session tracking done by Appointment.save, the orders of the  *)
(* point of sale and the service bundles (Package).                        *)
(*                                                                         *)
(* Times are counted in slots of equal length from the start of the day;   *)
(* a service duration is a number of slots.                                *)
(***************************************************************************)
EXTENDS Integers, FiniteSets, Sequences, TLC

\* ---------------------------------------------------------------- bounds
MaxAppts == 2          \* appointments ever created
MaxTime == 2           \* appointment_time ranges over 0..MaxTime
MaxDuration == 2       \* Service.duration ranges over 1..MaxDuration
MaxTarget == 2         \* total_sessions / sessions_required range over 0..MaxTarget

\* sessions_completed written by hand ranges over 0..MaxCount
MaxCount == MaxTarget + 1

\* NULL of a foreign key
None == 0

\* NULL of completed_date, the dates written by hand, and the value of
\* timezone.now().date()
NoDate == "null"
PastDays == {"d1"}
Todays == {"d2"}

ClientIds == {"c1"}
StaffIds == {"st1", "st2"}
ApptDates == {"mon"}
ServiceIds == {"sv1", "sv2"}
PackageIds == {"pk1"}
Times == 0..MaxTime
Durations == 1..MaxDuration
Targets == 0..MaxTarget
Counts == 0..MaxCount

STATUS_CHOICES == {"pending", "confirmed", "completed", "cancelled"}
ActiveStatuses == {"pending", "confirmed"}

VARIABLES
    services,   \* Service rows: id -> [duration, sessions_required]
    packages,   \* Package rows: id -> [total_sessions, services]
    appts,      \* Appointment rows, indexed by primary key 1..Len(appts)
    cps,        \* ClientPackage rows, indexed by primary key
    css,        \* ClientServiceSession rows, indexed by primary key
    last,       \* the last request and its outcome: [op, result]
    products,   \* Product rows: the set of the products on sale
    orders,     \* Order rows: id -> [total_price]
    items,      \* OrderItem rows: primary key -> [order, product, service,
                \*     appointment, quantity, unit_price, subtotal]
    backups,    \* the backup files in the backups directory (file names)
    reqs        \* requests in flight: request id -> what the request has
                \*     read or validated so far and not yet written

vars == <<services, packages, appts, cps, css, last, products, orders, items,
          backups, reqs>>

\* The tables of the point of sale
pos == <<products, orders, items>>

\* The point of sale before anything is sold
NoSales == products = {} /\ orders = << >> /\ items = << >>

\* The backups directory and the requests in flight
web == <<backups, reqs>>

\* No backup file and no request in flight
Quiet == backups = {} /\ reqs = << >>

\* ------------------------------------------------------- session counters

\* Faulty variants of save: one that completes only above the target, one
\* that never reopens a completed record.
SaveCounterStrict(rec, target, today) ==
    IF rec.sessions_completed > target
    THEN IF ~rec.is_completed
         THEN [rec EXCEPT !.is_completed = TRUE,
                          !.completed_date = IF @ = NoDate THEN today ELSE @]
         ELSE rec
    ELSE IF rec.is_completed
         THEN [rec EXCEPT !.is_completed = FALSE, !.completed_date = NoDate]
         ELSE rec

SaveCounterNoReopen(rec, target, today) ==
    IF rec.sessions_completed >= target
    THEN IF ~rec.is_completed
         THEN [rec EXCEPT !.is_completed = TRUE,
                          !.completed_date = IF @ = NoDate THEN today ELSE @]
         ELSE rec
    ELSE rec

\* ClientPackage.save / ClientServiceSession.save: recompute is_completed
\* from the count, then write the row.
SaveCounter(rec, target, today) ==
    IF rec.sessions_completed >= target
    THEN IF ~rec.is_completed
         THEN [rec EXCEPT !.is_completed = TRUE,
                          !.completed_date = IF @ = NoDate THEN today ELSE @]
         ELSE rec
    ELSE IF rec.is_completed
         THEN [rec EXCEPT !.is_completed = FALSE, !.completed_date = NoDate]
         ELSE rec

\* A faulty add_session that does not look at is_completed
AddSessionUnguarded(rec, target, today) ==
    LET n == rec.sessions_completed + 1
        r1 == IF n >= target
              THEN [rec EXCEPT !.sessions_completed = n,
                               !.is_completed = TRUE,
                               !.completed_date = today]
              ELSE [rec EXCEPT !.sessions_completed = n]
    IN SaveCounter(r1, target, today)

\* add_session: the record as stored afterwards
AddSessionRec(rec, target, today) ==
    IF ~rec.is_completed
    THEN LET n == rec.sessions_completed + 1
             r1 == IF n >= target
                   THEN [rec EXCEPT !.sessions_completed = n,
                                    !.is_completed = TRUE,
                                    !.completed_date = today]
                   ELSE [rec EXCEPT !.sessions_completed = n]
         IN SaveCounter(r1, target, today)
    ELSE rec

\* add_session: the value returned
AddSessionRet(rec) == ~rec.is_completed

CpTarget(rec) == packages[rec.package].total_sessions
CsTarget(rec) == services[rec.service].sessions_required

\* ------------------------------------------------------------ appointments

StartOf(a) == a.appointment_time
EndOf(a) == a.appointment_time + services[a.service].duration

\* Faulty variants of the overlap guard: one that only looks whether the new
\* start falls inside an existing appointment, one that treats the intervals
\* as closed, one that also runs on edits.
CleanOverlapStartInside(a, pk) ==
    /\ pk = None
    /\ \E i \in DOMAIN appts :
          /\ appts[i].staff = a.staff
          /\ appts[i].appointment_date = a.appointment_date
          /\ appts[i].status \in ActiveStatuses
          /\ StartOf(a) >= StartOf(appts[i])
          /\ StartOf(a) < EndOf(appts[i])

CleanOverlapClosed(a, pk) ==
    /\ pk = None
    /\ \E i \in DOMAIN appts :
          /\ appts[i].staff = a.staff
          /\ appts[i].appointment_date = a.appointment_date
          /\ appts[i].status \in ActiveStatuses
          /\ StartOf(a) <= EndOf(appts[i])
          /\ EndOf(a) >= StartOf(appts[i])

CleanOverlapOnEdit(a, pk) ==
    \E i \in DOMAIN appts :
        /\ i # pk
        /\ appts[i].staff = a.staff
        /\ appts[i].appointment_date = a.appointment_date
        /\ appts[i].status \in ActiveStatuses
        /\ StartOf(a) < EndOf(appts[i])
        /\ EndOf(a) > StartOf(appts[i])

\* Appointment.clean: the overlap guard, for new appointments only
CleanOverlap(a, pk) ==
    /\ pk = None
    /\ \E i \in DOMAIN appts :
          /\ appts[i].staff = a.staff
          /\ appts[i].appointment_date = a.appointment_date
          /\ appts[i].status \in ActiveStatuses
          /\ StartOf(a) < EndOf(appts[i])
          /\ EndOf(a) > StartOf(appts[i])

\* Meta.constraints: unique_staff_appointment_time, validated by full_clean
UniqueViolation(a, pk) ==
    \E i \in DOMAIN appts :
        /\ i # pk
        /\ appts[i].staff = a.staff
        /\ appts[i].appointment_date = a.appointment_date
        /\ appts[i].appointment_time = a.appointment_time

\* full_clean: the errors collected from clean and from the constraints
FullCleanErrors(a, pk) ==
    (IF CleanOverlap(a, pk) THEN {"overlap"} ELSE {})
        \cup (IF UniqueViolation(a, pk) THEN {"unique"} ELSE {})

\* ClientPackage.add_session / ClientServiceSession.add_session on row k
CpAdd(cp, k, today) ==
    [cp EXCEPT ![k] = AddSessionRec(@, CpTarget(@), today)]
CsAdd(cs, k, today) ==
    [cs EXCEPT ![k] = AddSessionRec(@, CsTarget(@), today)]

Tracked(ap, cp, cs) == [appts |-> ap, cps |-> cp, css |-> cs]

\* Appointment.save, lines 549-555, for an appointment that carries a link:
\* the linked counter gets one add_session.
TrackLinked(ap, cp, cs, i, today) ==
    IF ap[i].client_package # None
    THEN Tracked(ap, CpAdd(cp, ap[i].client_package, today), cs)
    ELSE IF ap[i].client_service_session # None
    THEN Tracked(ap, cp, CsAdd(cs, ap[i].client_service_session, today))
    ELSE Tracked(ap, cp, cs)

\* The incomplete ClientPackages of the client whose package includes the service
ActivePackages(cp, a) ==
    {k \in DOMAIN cp : /\ cp[k].client = a.client
                       /\ a.service \in packages[cp[k].package].services
                       /\ ~cp[k].is_completed}

NewCounter(client, key, val) ==
    IF key = "package"
    THEN [client |-> client, package |-> val, sessions_completed |-> 0,
          is_completed |-> FALSE, completed_date |-> NoDate]
    ELSE [client |-> client, service |-> val, sessions_completed |-> 0,
          is_completed |-> FALSE, completed_date |-> NoDate]

\* A faulty _auto_track_session that advances every matching incomplete
\* package instead of the first one
AutoTrackEvery(ap, cp, cs, i, today, k) ==
    IF ActivePackages(cp, ap[i]) # {}
    THEN LET every == [j \in DOMAIN cp |->
                          IF j \in ActivePackages(cp, ap[i])
                          THEN AddSessionRec(cp[j], CpTarget(cp[j]), today)
                          ELSE cp[j]]
         IN TrackLinked([ap EXCEPT ![i].client_package = k], every, cs, i, today)
    ELSE IF services[ap[i].service].sessions_required > 1
    THEN LET found == {j \in DOMAIN cs : /\ cs[j].client = ap[i].client
                                         /\ cs[j].service = ap[i].service}
             fresh == NewCounter(ap[i].client, "service", ap[i].service)
             cs0 == IF found = {}
                    THEN Append(cs, SaveCounter(fresh, CsTarget(fresh), today))
                    ELSE cs
             j == IF found = {} THEN Len(cs0) ELSE CHOOSE x \in found : TRUE
         IN IF ~cs0[j].is_completed
            THEN TrackLinked([ap EXCEPT ![i].client_service_session = j],
                             cp, CsAdd(cs0, j, today), i, today)
            ELSE Tracked(ap, cp, cs0)
    ELSE Tracked(ap, cp, cs)

\* Appointment._auto_track_session.  k is the row active_packages.first()
\* returns.  Each branch ends in self.save(update_fields=...), which enters
\* Appointment.save again with the link now set: its full_clean passes (staff,
\* date and time are those the outer save validated) and its tracking branch
\* is TrackLinked.
AutoTrack(ap, cp, cs, i, today, k) ==
    IF ActivePackages(cp, ap[i]) # {}
    THEN TrackLinked([ap EXCEPT ![i].client_package = k],
                     CpAdd(cp, k, today), cs, i, today)
    ELSE IF services[ap[i].service].sessions_required > 1
    THEN LET found == {j \in DOMAIN cs : /\ cs[j].client = ap[i].client
                                         /\ cs[j].service = ap[i].service}
             fresh == NewCounter(ap[i].client, "service", ap[i].service)
             cs0 == IF found = {}
                    THEN Append(cs, SaveCounter(fresh, CsTarget(fresh), today))
                    ELSE cs
             j == IF found = {} THEN Len(cs0) ELSE CHOOSE x \in found : TRUE
         IN IF ~cs0[j].is_completed
            THEN TrackLinked([ap EXCEPT ![i].client_service_session = j],
                             cp, CsAdd(cs0, j, today), i, today)
            ELSE Tracked(ap, cp, cs0)
    ELSE Tracked(ap, cp, cs)

\* A faulty save that tracks a new appointment as well (no `not is_new`)
AfterSaveTracksNew(ap, cp, cs, i, is_new, today, k) ==
    IF ap[i].status = "completed"
    THEN IF ap[i].client_package # None \/ ap[i].client_service_session # None
         THEN TrackLinked(ap, cp, cs, i, today)
         ELSE IF ActivePackages(cp, ap[i]) # {} /\ k \notin DOMAIN cp
         THEN AutoTrack(ap, cp, cs, i, today,
                        CHOOSE x \in ActivePackages(cp, ap[i]) : TRUE)
         ELSE AutoTrack(ap, cp, cs, i, today, k)
    ELSE Tracked(ap, cp, cs)

\* Appointment.save after super().save() wrote row i (lines 548-558)
AfterSave(ap, cp, cs, i, is_new, today, k) ==
    IF ap[i].status = "completed" /\ ~is_new
    THEN IF ap[i].client_package # None \/ ap[i].client_service_session # None
         THEN TrackLinked(ap, cp, cs, i, today)
         ELSE AutoTrack(ap, cp, cs, i, today, k)
    ELSE Tracked(ap, cp, cs)

ErrorText(errs) ==
    IF errs = {} THEN "ok"
    ELSE IF errs = {"overlap"} THEN "overlap"
    ELSE IF errs = {"unique"} THEN "unique"
    ELSE "overlap+unique"

Request(op, result) == [op |-> op, result |-> result]

\* Appointment(...).save() of a new appointment (admin add form, objects.create)
NewAppt(c, s, st, d, t, status) ==
    [client |-> c, service |-> s, staff |-> st,
     appointment_date |-> d, appointment_time |-> t, status |-> status,
     client_package |-> None, client_service_session |-> None]

\* Appointment.save of a new appointment a: what is stored and answered
CreateOutcome(a) ==
    LET errs == FullCleanErrors(a, None)
    IN IF errs # {}
       THEN [appts |-> appts, cps |-> cps, css |-> css,
             last |-> Request("create", ErrorText(errs))]
       ELSE LET ap == Append(appts, a)
                r == AfterSave(ap, cps, css, Len(ap), TRUE, NoDate, None)
            IN [appts |-> r.appts, cps |-> r.cps, css |-> r.css,
                last |-> Request("create", "ok")]

\* Appointment(...).save() of a new appointment (admin add form, objects.create)
CreateAppointment(c, s, st, d, t, status) ==
    LET o == CreateOutcome(NewAppt(c, s, st, d, t, status))
    IN /\ Len(appts) < MaxAppts
       /\ appts' = o.appts
       /\ cps' = o.cps
       /\ css' = o.css
       /\ last' = o.last
       /\ UNCHANGED <<web, pos, services, packages>>

\* Appointment.save of the stored appointment i holding the fields of a
EditOutcome(i, a, today, k) ==
    LET errs == FullCleanErrors(a, i)
    IN IF errs # {}
       THEN [appts |-> appts, cps |-> cps, css |-> css,
             last |-> Request("edit", ErrorText(errs))]
       ELSE LET r == AfterSave([appts EXCEPT ![i] = a], cps, css, i, FALSE,
                               today, k)
            IN [appts |-> r.appts, cps |-> r.cps, css |-> r.css,
                last |-> Request("edit", "ok")]

\* save() of the stored appointment i after the admin change form wrote the
\* fields of a into it
EditAppointment(i, a, today, k) ==
    LET o == EditOutcome(i, a, today, k)
    IN /\ i \in DOMAIN appts
       /\ appts' = o.appts
       /\ cps' = o.cps
       /\ css' = o.css
       /\ last' = o.last
       /\ UNCHANGED <<web, pos, services, packages>>

\* The edits tried: the stored row with at most one of its fields changed
OneFieldEdits(r) ==
    {[r EXCEPT !.service = s] : s \in ServiceIds}
        \cup {[r EXCEPT !.staff = st] : st \in StaffIds}
        \cup {[r EXCEPT !.appointment_date = d] : d \in ApptDates}
        \cup {[r EXCEPT !.appointment_time = t] : t \in Times}
        \cup {[r EXCEPT !.status = st] : st \in STATUS_CHOICES}

\* The rows active_packages.first() may return when appointment i is saved
\* with service s (Meta.ordering is -assigned_date; ties are in no fixed order)
FirstChoices(a) ==
    LET m == ActivePackages(cps, a)
    IN IF m = {} THEN {None} ELSE m

\* Service.save with a new duration (ServiceAdmin)
SetServiceDuration(s, n) ==
    /\ services[s].duration # n
    /\ services' = [services EXCEPT ![s].duration = n]
    /\ last' = Request("service", "ok")
    /\ UNCHANGED <<web, pos, packages, appts, cps, css>>

InitCatalog ==
    /\ services = [s \in ServiceIds |->
                     [duration |-> IF s = "sv1" THEN 2 ELSE 1,
                      sessions_required |-> IF s = "sv1" THEN 1 ELSE 2]]
    /\ packages = [p \in PackageIds |->
                     [total_sessions |-> 2, services |-> {}]]

InitAppointments ==
    /\ InitCatalog
    /\ appts = << >>
    /\ cps = << >>
    /\ css = << >>
    /\ last = Request("none", "ok")
    /\ NoSales
    /\ Quiet

NextAppointments ==
    \/ \E c \in ClientIds, s \in ServiceIds, st \in StaffIds, d \in ApptDates,
          t \in Times, status \in STATUS_CHOICES :
          CreateAppointment(c, s, st, d, t, status)
    \/ \E i \in DOMAIN appts, today \in Todays :
          \E a \in OneFieldEdits(appts[i]) :
              \E k \in FirstChoices(a) : EditAppointment(i, a, today, k)
    \/ \E s \in ServiceIds, n \in Durations : SetServiceDuration(s, n)

SpecAppointments == InitAppointments /\ [][NextAppointments]_vars

\* ------------------------------------------- session counter operations

\* The rows of tbl that hold the unique_together pair (client, val)
RowsOf(tbl, key, client, val) ==
    {k \in DOMAIN tbl : tbl[k].client = client /\ tbl[k][key] = val}

\* ClientPackage.objects.create(...) with the given field values (admin add
\* form, load_test_data, the tests): save() recomputes the status and the row
\* is inserted unless the pair (client, package) is taken.
CreateClientPackage(c, p, n, done, date, today) ==
    LET rec == [NewCounter(c, "package", p) EXCEPT
                   !.sessions_completed = n, !.is_completed = done,
                   !.completed_date = date]
    IN /\ IF RowsOf(cps, "package", c, p) # {}
          THEN cps' = cps /\ last' = Request("create_cp", "IntegrityError")
          ELSE /\ cps' = Append(cps, SaveCounter(rec, CpTarget(rec), today))
               /\ last' = Request("create_cp", "ok")
       /\ UNCHANGED <<web, pos, services, packages, appts, css>>

\* ClientServiceSession.objects.create(...)
CreateClientServiceSession(c, sv, n, done, date, today) ==
    LET rec == [NewCounter(c, "service", sv) EXCEPT
                   !.sessions_completed = n, !.is_completed = done,
                   !.completed_date = date]
    IN /\ IF RowsOf(css, "service", c, sv) # {}
          THEN css' = css /\ last' = Request("create_cs", "IntegrityError")
          ELSE /\ css' = Append(css, SaveCounter(rec, CsTarget(rec), today))
               /\ last' = Request("create_cs", "ok")
       /\ UNCHANGED <<web, pos, services, packages, appts, cps>>

\* What save() did to the status of the record
SaveEffect(before, after) ==
    IF after.is_completed = before.is_completed THEN "kept"
    ELSE IF after.is_completed THEN "completed" ELSE "reopened"

\* The admin change form of a ClientPackage: the three fields are written,
\* then save()
AdminSaveClientPackage(k, n, done, date, today) ==
    LET rec == [cps[k] EXCEPT !.sessions_completed = n, !.is_completed = done,
                              !.completed_date = date]
        r == SaveCounter(rec, CpTarget(rec), today)
    IN /\ k \in DOMAIN cps
       /\ cps' = [cps EXCEPT ![k] = r]
       /\ last' = Request("admin_cp", SaveEffect(cps[k], r))
       /\ UNCHANGED <<web, pos, services, packages, appts, css>>

AdminSaveClientServiceSession(k, n, done, date, today) ==
    LET rec == [css[k] EXCEPT !.sessions_completed = n, !.is_completed = done,
                              !.completed_date = date]
        r == SaveCounter(rec, CsTarget(rec), today)
    IN /\ k \in DOMAIN css
       /\ css' = [css EXCEPT ![k] = r]
       /\ last' = Request("admin_cs", SaveEffect(css[k], r))
       /\ UNCHANGED <<web, pos, services, packages, appts, cps>>

RetText(b) == IF b THEN "True" ELSE "False"

\* client_package.add_session() / service_session.add_session() called on
\* the stored record
ClientPackageAddSession(k, today) ==
    /\ k \in DOMAIN cps
    /\ cps' = CpAdd(cps, k, today)
    /\ last' = Request("cp_add_session", RetText(AddSessionRet(cps[k])))
    /\ UNCHANGED <<web, pos, services, packages, appts, css>>

ClientServiceSessionAddSession(k, today) ==
    /\ k \in DOMAIN css
    /\ css' = CsAdd(css, k, today)
    /\ last' = Request("cs_add_session", RetText(AddSessionRet(css[k])))
    /\ UNCHANGED <<web, pos, services, packages, appts, cps>>

\* The view add_package_session / add_service_session on record rec: the
\* record stored afterwards and the message shown
AddSessionView(rec, target, today) ==
    IF rec.is_completed
    THEN [rec |-> rec, msg |-> "already completed"]
    ELSE IF AddSessionRet(rec)
    THEN [rec |-> AddSessionRec(rec, target, today), msg |-> "Session added"]
    ELSE [rec |-> AddSessionRec(rec, target, today), msg |-> "Could not add session"]

add_package_session(k, today) ==
    LET o == AddSessionView(cps[k], CpTarget(cps[k]), today)
    IN /\ k \in DOMAIN cps
       /\ cps' = [cps EXCEPT ![k] = o.rec]
       /\ last' = Request("add_package_session", o.msg)
       /\ UNCHANGED <<web, pos, services, packages, appts, css>>

add_service_session(k, today) ==
    LET o == AddSessionView(css[k], CsTarget(css[k]), today)
    IN /\ k \in DOMAIN css
       /\ css' = [css EXCEPT ![k] = o.rec]
       /\ last' = Request("add_service_session", o.msg)
       /\ UNCHANGED <<web, pos, services, packages, appts, cps>>

\* Package.save with a new total_sessions: the row is written, then
\* full_clean runs if the package has services (Package.clean: 3 to 5)
SetTotalSessions(p, n) ==
    /\ packages[p].total_sessions # n
    /\ packages' = [packages EXCEPT ![p].total_sessions = n]
    /\ last' = Request("package",
                       IF packages[p].services # {}
                          /\ (Cardinality(packages[p].services) < 3
                              \/ Cardinality(packages[p].services) > 5)
                       THEN "ValidationError" ELSE "ok")
    /\ UNCHANGED <<web, pos, services, appts, cps, css>>

\* Service.save with a new sessions_required (ServiceAdmin)
SetSessionsRequired(s, n) ==
    /\ services[s].sessions_required # n
    /\ services' = [services EXCEPT ![s].sessions_required = n]
    /\ last' = Request("service", "ok")
    /\ UNCHANGED <<web, pos, packages, appts, cps, css>>

\* The services whose sessions are tracked by hand in SpecCounters
TrackedServices == {"sv1"}

InitCounters ==
    /\ services \in [ServiceIds -> [duration : {1}, sessions_required : Targets]]
    /\ \A s \in ServiceIds \ TrackedServices : services[s].sessions_required = 1
    /\ packages \in [PackageIds -> [total_sessions : Targets, services : {{}}]]
    /\ appts = << >>
    /\ cps = << >>
    /\ css = << >>
    /\ last = Request("none", "ok")
    /\ NoSales
    /\ Quiet

NextCounters ==
    \/ \E c \in ClientIds, p \in PackageIds, n \in Counts, done \in BOOLEAN,
          date \in {NoDate} \cup PastDays, today \in Todays :
          CreateClientPackage(c, p, n, done, date, today)
    \/ \E c \in ClientIds, sv \in TrackedServices, n \in Counts, done \in BOOLEAN,
          date \in {NoDate} \cup PastDays, today \in Todays :
          CreateClientServiceSession(c, sv, n, done, date, today)
    \/ \E k \in DOMAIN cps, n \in Counts, done \in BOOLEAN,
          date \in {NoDate} \cup PastDays, today \in Todays :
          AdminSaveClientPackage(k, n, done, date, today)
    \/ \E k \in DOMAIN css, n \in Counts, done \in BOOLEAN,
          date \in {NoDate} \cup PastDays, today \in Todays :
          AdminSaveClientServiceSession(k, n, done, date, today)
    \/ \E k \in DOMAIN cps, today \in Todays : ClientPackageAddSession(k, today)
    \/ \E k \in DOMAIN css, today \in Todays : ClientServiceSessionAddSession(k, today)
    \/ \E k \in DOMAIN cps, today \in Todays : add_package_session(k, today)
    \/ \E k \in DOMAIN css, today \in Todays : add_service_session(k, today)
    \/ \E p \in PackageIds, n \in Targets : SetTotalSessions(p, n)
    \/ \E s \in TrackedServices, n \in Targets : SetSessionsRequired(s, n)

SpecCounters == InitCounters /\ [][NextCounters]_vars

\* ------------------------------------------- completion auto-tracking

\* The packages on sale where completions are tracked: pk1 bundles both
\* services, pk2 only the first
TrackingPackageIds == {"pk1", "pk2"}

\* The staff member and the start time booked where completions are tracked
TrackingStaff == {"st1"}
TrackingTimes == {0}

\* The admin change form of an appointment: one of status, service or the two
\* fields of the 'Session Tracking' fieldset is changed (or none is)
TrackingEdits(r) ==
    {[r EXCEPT !.status = st] : st \in STATUS_CHOICES}
        \cup {[r EXCEPT !.service = s] : s \in ServiceIds}
        \cup {[r EXCEPT !.client_package = k] : k \in {None} \cup DOMAIN cps}
        \cup {[r EXCEPT !.client_service_session = k] :
                 k \in {None} \cup DOMAIN css}

InitTracking ==
    /\ services \in [ServiceIds -> [duration : {1},
                                    sessions_required : 1..MaxCount]]
    /\ services["sv1"].sessions_required = 1
    /\ services["sv2"].sessions_required > 1
    /\ packages = [p \in TrackingPackageIds |->
                     IF p = "pk1"
                     THEN [total_sessions |-> MaxCount,
                           services |-> {"sv1", "sv2"}]
                     ELSE [total_sessions |-> 1, services |-> {"sv1"}]]
    /\ appts = << >>
    /\ cps = << >>
    /\ css = << >>
    /\ last = Request("none", "ok")
    /\ NoSales
    /\ Quiet

NextTracking ==
    \/ \E c \in ClientIds, s \in ServiceIds, st \in TrackingStaff,
          d \in ApptDates, t \in TrackingTimes, status \in STATUS_CHOICES :
          CreateAppointment(c, s, st, d, t, status)
    \/ \E i \in DOMAIN appts, today \in Todays :
          \E a \in TrackingEdits(appts[i]) :
              \E k \in FirstChoices(a) : EditAppointment(i, a, today, k)
    \/ \E c \in ClientIds, p \in TrackingPackageIds, today \in Todays :
          CreateClientPackage(c, p, 0, FALSE, NoDate, today)

SpecTracking == InitTracking /\ [][NextTracking]_vars

\* ------------------------------------------------------- point of sale

MaxItems == 2          \* order items stored at one time
MaxQuantity == 1       \* OrderItem.quantity ranges over 0..MaxQuantity
MaxPrice == 2          \* OrderItem.unit_price ranges over 1..MaxPrice (cents)

ProductIds == {"p1"}
OrderIds == {"o1", "o2"}
ItemPks == 1..MaxItems
Quantities == 0..MaxQuantity
Prices == 1..MaxPrice

\* NULL of the product and service foreign keys, and of a decimal field
NoRef == "none"
NoAmount == -1

\* The table tbl without the rows whose key is outside keep
Restrict(tbl, keep) == [k \in DOMAIN tbl \cap keep |-> tbl[k]]

\* The table tbl with row k written
Written(tbl, k, row) ==
    [x \in DOMAIN tbl \cup {k} |-> IF x = k THEN row ELSE tbl[x]]

\* sum(item.subtotal for item in order.items.all())
RECURSIVE SumSubtotals(_, _)
SumSubtotals(its, pks) ==
    IF pks = {} THEN 0
    ELSE LET k == CHOOSE x \in pks : TRUE
         IN its[k].subtotal + SumSubtotals(its, pks \ {k})

ItemsOf(its, o) == {k \in DOMAIN its : its[k].order = o}

\* A faulty OrderItem.clean that lets an item carry both a product and a
\* service
ItemCleanAllowsBoth(it) ==
    IF it.product = NoRef /\ it.service = NoRef THEN {"neither"}
    ELSE IF /\ it.service # NoRef
            /\ it.appointment # None
            /\ appts[it.appointment].service # it.service
    THEN {"appointment"}
    ELSE {}

\* OrderItem.clean: the first error raised
ItemClean(it) ==
    IF it.product = NoRef /\ it.service = NoRef THEN {"neither"}
    ELSE IF it.product # NoRef /\ it.service # NoRef THEN {"both"}
    ELSE IF /\ it.service # NoRef
            /\ it.appointment # None
            /\ appts[it.appointment].service # it.service
    THEN {"appointment"}
    ELSE {}

\* full_clean of an OrderItem: clean_fields rejects a NULL subtotal (the
\* field is neither null nor blank), then clean
ItemFullCleanErrors(it) ==
    (IF it.subtotal = NoAmount THEN {"subtotal"} ELSE {}) \cup ItemClean(it)

\* The primary key given to a new row
NewItemPk == CHOOSE k \in ItemPks \ DOMAIN items :
                \A x \in ItemPks \ DOMAIN items : k <= x

\* Faulty variants of OrderItem.save: one that keeps the subtotal it was
\* given, one that adds the saved item's subtotal to the stored total
\* instead of scanning the items.
SaveItemKeepsSubtotal(pk, it) ==
    IF ItemFullCleanErrors(it) # {}
    THEN [items |-> items, orders |-> orders,
          last |-> Request("save_item", "ValidationError")]
    ELSE LET key == IF pk = None THEN NewItemPk ELSE pk
             its == Written(items, key, it)
         IN [items |-> its,
             orders |-> [orders EXCEPT ![it.order].total_price =
                            SumSubtotals(its, ItemsOf(its, it.order))],
             last |-> Request("save_item", "ok")]

SaveItemIncremental(pk, it) ==
    IF ItemFullCleanErrors(it) # {}
    THEN [items |-> items, orders |-> orders,
          last |-> Request("save_item", "ValidationError")]
    ELSE LET row == [it EXCEPT !.subtotal = it.quantity * it.unit_price]
             key == IF pk = None THEN NewItemPk ELSE pk
             its == Written(items, key, row)
         IN [items |-> its,
             orders |-> [orders EXCEPT ![row.order].total_price =
                            @ + row.subtotal],
             last |-> Request("save_item", "ok")]

\* OrderItem.save of item it, stored under pk (None: a new row): what is
\* stored and answered
SaveItemOutcome(pk, it) ==
    IF ItemFullCleanErrors(it) # {}
    THEN [items |-> items, orders |-> orders,
          last |-> Request("save_item", "ValidationError")]
    ELSE LET row == [it EXCEPT !.subtotal = it.quantity * it.unit_price]
             key == IF pk = None THEN NewItemPk ELSE pk
             its == Written(items, key, row)
         IN [items |-> its,
             orders |-> [orders EXCEPT ![row.order].total_price =
                            SumSubtotals(its, ItemsOf(its, row.order))],
             last |-> Request("save_item", "ok")]

\* Order.objects.create(total_price=...)
CreateOrder(o, total) ==
    /\ o \notin DOMAIN orders
    /\ orders' = Written(orders, o, [total_price |-> total])
    /\ last' = Request("create_order", "ok")
    /\ UNCHANGED <<web, services, packages, appts, cps, css, products, items>>

\* OrderItem.objects.create(...) / the inline add row of OrderAdmin
CreateOrderItem(it) ==
    LET o == SaveItemOutcome(None, it)
    IN /\ DOMAIN items # ItemPks
       /\ items' = o.items
       /\ orders' = o.orders
       /\ last' = o.last
       /\ UNCHANGED <<web, services, packages, appts, cps, css, products>>

\* save() of the stored item pk after its fields were set to those of it
ChangeOrderItem(pk, it) ==
    LET o == SaveItemOutcome(pk, it)
    IN /\ pk \in DOMAIN items
       /\ items' = o.items
       /\ orders' = o.orders
       /\ last' = o.last
       /\ UNCHANGED <<web, services, packages, appts, cps, css, products>>

\* OrderItem.delete (admin delete, the inline delete box): the model has no
\* delete hook, the order is not saved
DeleteOrderItem(pk) ==
    /\ pk \in DOMAIN items
    /\ items' = Restrict(items, DOMAIN items \ {pk})
    /\ last' = Request("delete_item", "ok")
    /\ UNCHANGED <<web, services, packages, appts, cps, css, products, orders>>

\* Order.delete: the items go with it (on_delete=CASCADE)
DeleteOrder(o) ==
    /\ o \in DOMAIN orders
    /\ orders' = Restrict(orders, DOMAIN orders \ {o})
    /\ items' = Restrict(items, {k \in DOMAIN items : items[k].order # o})
    /\ last' = Request("delete_order", "ok")
    /\ UNCHANGED <<web, services, packages, appts, cps, css, products>>

\* Product.delete: its items go with it (on_delete=CASCADE)
DeleteProduct(p) ==
    /\ p \in products
    /\ products' = products \ {p}
    /\ items' = Restrict(items, {k \in DOMAIN items : items[k].product # p})
    /\ last' = Request("delete_product", "ok")
    /\ UNCHANGED <<web, services, packages, appts, cps, css, orders>>

\* The rows of seq whose index is in keep, renumbered from 1
Kept(seq, keep) ==
    [n \in 1..Cardinality(keep) |->
        seq[CHOOSE j \in keep : Cardinality({x \in keep : x <= j}) = n]]

\* The new index of row k, None if the row is gone
Renumber(keep, k) ==
    IF k \in keep THEN Cardinality({x \in keep : x <= k}) ELSE None

\* Service.delete: appointments, service sessions and order items of the
\* service go with it (CASCADE), the links to what is gone become NULL
\* (SET_NULL), the package rows of the service are removed
DeleteService(s) ==
    LET keepA == {i \in DOMAIN appts : appts[i].service # s}
        keepS == {j \in DOMAIN css : css[j].service # s}
    IN /\ s \in DOMAIN services
       /\ services' = Restrict(services, DOMAIN services \ {s})
       /\ packages' = [p \in DOMAIN packages |->
                         [packages[p] EXCEPT !.services = @ \ {s}]]
       /\ css' = Kept(css, keepS)
       /\ appts' = Kept([i \in DOMAIN appts |->
                           [appts[i] EXCEPT !.client_service_session =
                                               Renumber(keepS, @)]], keepA)
       /\ items' = [k \in {x \in DOMAIN items : items[x].service # s} |->
                      [items[k] EXCEPT !.appointment = Renumber(keepA, @)]]
       /\ last' = Request("delete_service", "ok")
       /\ UNCHANGED <<web, cps, products, orders>>

\* The items a caller may hand to save: any existing order, product, service
\* and appointment, any quantity and price, and a subtotal of its own
SuppliedSubtotals == {NoAmount, 0, MaxQuantity * MaxPrice + 1}

ItemInputs ==
    [order : DOMAIN orders,
     product : {NoRef} \cup products,
     service : {NoRef} \cup DOMAIN services,
     appointment : {None} \cup DOMAIN appts,
     quantity : Quantities,
     unit_price : Prices,
     subtotal : SuppliedSubtotals]

\* The services sold over the counter
SoldServices == {"sv1"}

\* The items that are sold: a product, or a service with or without the
\* appointment it was booked for, each with a subtotal given by the caller;
\* and the malformed items that are tried
SoldItems ==
    {it \in ItemInputs :
        /\ (it.product = NoRef) # (it.service = NoRef)
        /\ it.service \in {NoRef} \cup SoldServices
        /\ it.appointment # None => it.service # NoRef}
        \cup {it \in ItemInputs : /\ it.quantity = MaxQuantity
                                  /\ it.unit_price = MaxPrice
                                  /\ ItemFullCleanErrors(it) # {}}

\* The change form of a stored item: at most one field changed, the subtotal
\* (read-only in the admin) as stored
OneFieldItemEdits(r) ==
    {[r EXCEPT !.order = o] : o \in DOMAIN orders}
        \cup {[r EXCEPT !.product = p] : p \in {NoRef} \cup products}
        \cup {[r EXCEPT !.service = s] :
                 s \in {NoRef} \cup (DOMAIN services \cap SoldServices)}
        \cup {[r EXCEPT !.appointment = a] :
                 a \in IF r.service = NoRef THEN {r.appointment}
                       ELSE {None} \cup DOMAIN appts}
        \cup {[r EXCEPT !.quantity = q] : q \in Quantities}
        \cup {[r EXCEPT !.unit_price = u] : u \in Prices}

\* A catalog with one completed appointment; no order yet
InitOrders ==
    /\ InitCatalog
    /\ appts = <<NewAppt("c1", "sv1", "st1", "mon", 0, "completed")>>
    /\ cps = << >>
    /\ css = << >>
    /\ last = Request("none", "ok")
    /\ products = ProductIds
    /\ orders = << >>
    /\ items = << >>
    /\ Quiet

NextOrders ==
    \/ \E o \in OrderIds, total \in {0, MaxPrice} : CreateOrder(o, total)
    \/ \E it \in SoldItems : CreateOrderItem(it)
    \/ \E pk \in DOMAIN items :
          \E it \in OneFieldItemEdits(items[pk]) : ChangeOrderItem(pk, it)
    \/ \E pk \in DOMAIN items : DeleteOrderItem(pk)
    \/ \E o \in DOMAIN orders : DeleteOrder(o)
    \/ \E p \in products : DeleteProduct(p)
    \/ \E s \in DOMAIN services : DeleteService(s)

SpecOrders == InitOrders /\ [][NextOrders]_vars

\* --------------------------------------------------- service bundles

\* Package.clean: at least 3 and at most 5 services
MinServices == 3
MaxServices == 5

\* The services a bundle is made of
BundleServiceIds == ServiceIds \cup {"sv3", "sv4", "sv5", "sv6"}

\* Package.clean of a stored package with the services linked to it
PackageClean(pkg) ==
    IF Cardinality(pkg.services) < MinServices THEN {"at least 3"}
    ELSE IF Cardinality(pkg.services) > MaxServices THEN {"at most 5"}
    ELSE {}

\* Package.save of the stored package p with total_sessions n: the row is
\* written, then full_clean runs if any service is linked.  Inside
\* transaction.atomic (admin change view, update_or_create,
\* apply_package_discounts) the error rolls the row back; called directly it
\* does not.
SavePackageOutcome(p, n, atomic) ==
    LET written == [packages EXCEPT ![p].total_sessions = n]
        errs == IF written[p].services # {} THEN PackageClean(written[p])
                ELSE {}
    IN IF errs = {}
       THEN [packages |-> written, result |-> "ok"]
       ELSE [packages |-> IF atomic THEN packages ELSE written,
             result |-> "ValidationError"]

\* Package.objects.create(...): no service is linked yet, nothing is
\* validated
CreatePackage(p, n) ==
    /\ p \notin DOMAIN packages
    /\ packages' = Written(packages, p, [total_sessions |-> n, services |-> {}])
    /\ last' = Request("create_package", "ok")
    /\ UNCHANGED <<web, pos, services, appts, cps, css>>

\* package.services.add(s)
AddPackageService(p, s) ==
    /\ p \in DOMAIN packages
    /\ s \notin packages[p].services
    /\ packages' = [packages EXCEPT ![p].services = @ \cup {s}]
    /\ last' = Request("services.add", "ok")
    /\ UNCHANGED <<web, pos, services, appts, cps, css>>

\* package.services.remove(s)
RemovePackageService(p, s) ==
    /\ p \in DOMAIN packages
    /\ s \in packages[p].services
    /\ packages' = [packages EXCEPT ![p].services = @ \ {s}]
    /\ last' = Request("services.remove", "ok")
    /\ UNCHANGED <<web, pos, services, appts, cps, css>>

\* package.services.set(linked)
SetPackageServices(p, linked) ==
    /\ p \in DOMAIN packages
    /\ packages' = [packages EXCEPT ![p].services = linked]
    /\ last' = Request("services.set", "ok")
    /\ UNCHANGED <<web, pos, services, appts, cps, css>>

\* The change form of PackageAdmin with its service inline, one transaction:
\* save_model calls Package.save, which counts the services linked before the
\* form; then the inline rows are written
AdminChangePackage(p, n, linked) ==
    LET o == SavePackageOutcome(p, n, TRUE)
    IN /\ p \in DOMAIN packages
       /\ packages' = IF o.result = "ok"
                      THEN [o.packages EXCEPT ![p].services = linked]
                      ELSE o.packages
       /\ last' = Request("admin_package", o.result)
       /\ UNCHANGED <<web, pos, services, appts, cps, css>>

InitPackages ==
    /\ services = [s \in BundleServiceIds |->
                     [duration |-> 1, sessions_required |-> 1]]
    /\ packages = << >>
    /\ appts = << >>
    /\ cps = << >>
    /\ css = << >>
    /\ last = Request("none", "ok")
    /\ NoSales
    /\ Quiet

NextPackages ==
    \/ \E p \in PackageIds, n \in Targets : CreatePackage(p, n)
    \/ \E p \in DOMAIN packages, s \in BundleServiceIds : AddPackageService(p, s)
    \/ \E p \in DOMAIN packages, s \in BundleServiceIds :
          RemovePackageService(p, s)
    \/ \E p \in DOMAIN packages, linked \in SUBSET BundleServiceIds :
          SetPackageServices(p, linked)
    \/ \E p \in DOMAIN packages, n \in Targets : SetTotalSessions(p, n)
    \/ \E p \in DOMAIN packages, n \in Targets,
          linked \in SUBSET BundleServiceIds : AdminChangePackage(p, n, linked)

SpecPackages == InitPackages /\ [][NextPackages]_vars

\* ------------------------------------- assigning packages and services

\* The clients whose profile page assigns packages and starts tracking
AssignClientIds == ClientIds \cup {"c2"}

\* The request of a profile view about the pair (client, val)
PairRequest(op, result, client, val) ==
    [op |-> op, result |-> result, client |-> client, val |-> val]

\* A faulty start_service_session over a table without the unique_together
\* of (client, service): 'allow duplicates', as the view's comment has it
StartServiceAllowsDuplicates(c, sv, today) ==
    IF ~services[sv].is_active
    THEN [css |-> css, msg |-> "not found or inactive"]
    ELSE LET rec == NewCounter(c, "service", sv)
         IN [css |-> Append(css, SaveCounter(rec, CsTarget(rec), today)),
             msg |-> "started"]

\* The view assign_package_to_client: the ClientPackage table afterwards and
\* the message shown
AssignPackageOutcome(c, p, today) ==
    IF ~packages[p].is_active
    THEN [cps |-> cps, msg |-> "not found or inactive"]
    ELSE IF RowsOf(cps, "package", c, p) # {}
    THEN [cps |-> cps, msg |-> "already assigned"]
    ELSE LET rec == NewCounter(c, "package", p)
         IN [cps |-> Append(cps, SaveCounter(rec, CpTarget(rec), today)),
             msg |-> "assigned"]

\* The view start_service_session: it does not look for an existing row;
\* objects.create raises IntegrityError on a taken pair (unique_together) and
\* the view's except clause turns it into an error message
StartServiceOutcome(c, sv, today) ==
    IF ~services[sv].is_active
    THEN [css |-> css, msg |-> "not found or inactive"]
    ELSE IF RowsOf(css, "service", c, sv) # {}
    THEN [css |-> css, msg |-> "Error starting session tracking"]
    ELSE LET rec == NewCounter(c, "service", sv)
         IN [css |-> Append(css, SaveCounter(rec, CsTarget(rec), today)),
             msg |-> "started"]

assign_package_to_client(c, p, today) ==
    LET o == AssignPackageOutcome(c, p, today)
    IN /\ cps' = o.cps
       /\ last' = PairRequest("assign_package_to_client", o.msg, c, p)
       /\ UNCHANGED <<web, pos, services, packages, appts, css>>

start_service_session(c, sv, today) ==
    LET o == StartServiceOutcome(c, sv, today)
    IN /\ css' = o.css
       /\ last' = PairRequest("start_service_session", o.msg, c, sv)
       /\ UNCHANGED <<web, pos, services, packages, appts, cps>>

\* The requests made from the profile pages: both clients ask for both
\* packages, and for the tracking of sv2; c1 also asks for sv1
StartPairs == (AssignClientIds \X {"sv2"}) \cup {<<"c1", "sv1">>}

\* The appointments of SpecAssign are confirmed, then completed
StatusEdits(r) == {[r EXCEPT !.status = "completed"]}

\* pk1 and sv2 are on sale, pk2 and sv1 have been withdrawn (is_active
\* False); sv2 is in no package, so that a completed appointment for it is
\* tracked by get_or_create
InitAssign ==
    /\ services = [s \in ServiceIds |->
                     [duration |-> 1, sessions_required |-> MaxTarget,
                      is_active |-> s = "sv2"]]
    /\ packages = [p \in TrackingPackageIds |->
                     [total_sessions |-> MaxTarget, services |-> {"sv1"},
                      is_active |-> p = "pk1"]]
    /\ appts = << >>
    /\ cps = << >>
    /\ css = << >>
    /\ last = Request("none", "ok")
    /\ NoSales
    /\ Quiet

NextAssign ==
    \/ \E c \in AssignClientIds, p \in TrackingPackageIds, today \in Todays :
          assign_package_to_client(c, p, today)
    \/ \E pair \in StartPairs, today \in Todays :
          start_service_session(pair[1], pair[2], today)
    \/ \E k \in DOMAIN cps, today \in Todays : add_package_session(k, today)
    \/ \E k \in DOMAIN css, today \in Todays : add_service_session(k, today)
    \/ \E c \in ClientIds, st \in TrackingStaff, d \in ApptDates,
          t \in TrackingTimes :
          CreateAppointment(c, "sv2", st, d, t, "confirmed")
    \/ \E i \in DOMAIN appts, today \in Todays :
          \E a \in StatusEdits(appts[i]) :
              \E k \in FirstChoices(a) : EditAppointment(i, a, today, k)

SpecAssign == InitAssign /\ [][NextAssign]_vars

\* ---------------------------------------------- package discounts

\* The --discount percentages applied (the default and one half)
Discounts == {20, 50}

\* Package.price values entered by hand, in cents
ListPrices == {10, 15}

\* The service sets linked to a package where discounts are applied: none,
\* too few (1 or 2), and a valid bundle of 3
DiscountBundles == {{}, {"sv1"}, {"sv1", "sv2"}, {"sv1", "sv2", "sv3"}}

\* The rank of the packages by name
NameOrder == [p \in TrackingPackageIds |-> IF p = "pk1" THEN 1 ELSE 2]

\* Package.objects.all(): Meta.ordering is the name
RECURSIVE ByName(_)
ByName(ids) ==
    IF ids = {} THEN << >>
    ELSE LET first == CHOOSE p \in ids : \A q \in ids : NameOrder[p] <= NameOrder[q]
         IN <<first>> \o ByName(ids \ {first})

\* (original_price * discount_multiplier).quantize(Decimal('0.01')): the
\* default rounding of decimal is ROUND_HALF_EVEN.  Amounts are in cents.
DiscountedPrice(original, d) ==
    LET scaled == original * (100 - d)
        q == scaled \div 100
        r == scaled % 100
    IN IF r > 50 \/ (r = 50 /\ q % 2 = 1) THEN q + 1 ELSE q

\* The body of the loop of apply_package_discounts up to package.save()
Discounted(row, d) ==
    LET original == IF row.original_price \in {NoAmount, 0} THEN row.price
                    ELSE row.original_price
    IN [row EXCEPT !.original_price = original,
                   !.price = DiscountedPrice(original, d)]

\* Package.save: the error raised after the row was written
PackageSaveErrors(row) ==
    IF row.services # {} THEN PackageClean(row) ELSE {}

\* The loop of apply_package_discounts over the packages todo: it stops at
\* the first save that raises
RECURSIVE DiscountLoop(_, _, _)
DiscountLoop(pkgs, todo, d) ==
    IF todo = << >> THEN [packages |-> pkgs, result |-> "ok"]
    ELSE LET p == Head(todo)
             written == [pkgs EXCEPT ![p] = Discounted(pkgs[p], d)]
         IN IF PackageSaveErrors(written[p]) # {}
            THEN [packages |-> written, result |-> "ValidationError"]
            ELSE DiscountLoop(written, Tail(todo), d)

\* A faulty apply_package_discounts without transaction.atomic: the packages
\* saved before the failing one keep their new prices
ApplyDiscountsAutocommit(d) ==
    DiscountLoop(packages, ByName(DOMAIN packages), d)

\* apply_package_discounts --discount d: the loop runs inside
\* transaction.atomic, an exception leaves the block and rolls back
ApplyDiscountsOutcome(d) ==
    LET o == DiscountLoop(packages, ByName(DOMAIN packages), d)
    IN IF o.result = "ok" THEN o
       ELSE [packages |-> packages, result |-> o.result]

apply_package_discounts(d) ==
    LET o == ApplyDiscountsOutcome(d)
    IN /\ packages' = o.packages
       /\ last' = Request("apply_package_discounts", o.result)
       /\ UNCHANGED <<web, pos, services, appts, cps, css>>

\* package.price = price ; package.save() called directly: the row is
\* written whether full_clean raises or not
SetPackagePrice(p, price) ==
    LET row == [packages[p] EXCEPT !.price = price]
    IN /\ p \in DOMAIN packages
       /\ packages' = [packages EXCEPT ![p] = row]
       /\ last' = Request("package_save",
                          IF PackageSaveErrors(row) = {} THEN "ok"
                          ELSE "ValidationError")
       /\ UNCHANGED <<web, pos, services, appts, cps, css>>

\* Two packages without services and without original_price
InitDiscounts ==
    /\ services = [s \in BundleServiceIds |->
                     [duration |-> 1, sessions_required |-> 1]]
    /\ packages \in [TrackingPackageIds ->
                        [total_sessions : {MaxCount}, services : {{}},
                         price : ListPrices, original_price : {NoAmount},
                         is_active : {TRUE}]]
    /\ appts = << >>
    /\ cps = << >>
    /\ css = << >>
    /\ last = Request("none", "ok")
    /\ NoSales
    /\ Quiet

NextDiscounts ==
    \/ \E d \in Discounts : apply_package_discounts(d)
    \/ \E p \in TrackingPackageIds, price \in ListPrices :
          SetPackagePrice(p, price)
    \/ \E p \in TrackingPackageIds, linked \in DiscountBundles :
          SetPackageServices(p, linked)

SpecDiscounts == InitDiscounts /\ [][NextDiscounts]_vars

\* ---------------------------------------------- import of the catalog

\* The names of the services and packages in the import files
ImportServiceNames == {"sv1", "sv2", "sv3"}
ImportPackageNames == {"pk1"}

\* An entry of the file without the key 'name', and one with a blank name
Missing == "missing"
Blank == ""

\* The sequences without repetition over the set s, up to length n
RECURSIVE Lists(_, _)
Lists(s, n) ==
    IF n = 0 THEN {<< >>}
    ELSE {<< >>} \cup UNION {{<<x>> \o l : l \in Lists(s \ {x}, n - 1)} :
                              x \in s}

Range(seq) == {seq[i] : i \in DOMAIN seq}

\* data['services'] and data['packages'] of cleaned_data.json: a package
\* entry may lack a price, and 'found' are the services the text heuristics
\* of the command recognise for it
ServiceEntries == [name : ImportServiceNames \cup {Missing, Blank}]
PackageEntries ==
    [name : ImportPackageNames \cup {Missing}, priced : BOOLEAN,
     found : {{}, {"sv1", "sv2"}}]
ImportFiles ==
    [services : Lists(ServiceEntries, MinServices),
     packages : Lists(PackageEntries, 1)]

\* The first loop of handle (lines 99-127): update_or_create by name.  The
\* result carries service_map as the list of the names in insertion order.
RECURSIVE ImportServiceRows(_, _, _)
ImportServiceRows(svcs, todo, map) ==
    IF todo = << >> THEN [services |-> svcs, map |-> map, result |-> "ok"]
    ELSE LET name == Head(todo).name
             row == [duration |-> 1, sessions_required |-> 1, is_active |-> TRUE]
         IN IF name = Missing
            THEN [services |-> svcs, map |-> map, result |-> "KeyError"]
            ELSE IF name = Blank
            THEN ImportServiceRows(svcs, Tail(todo), map)
            ELSE ImportServiceRows(
                     Written(svcs, name, row), Tail(todo),
                     IF name \in Range(map) THEN map ELSE Append(map, name))

\* Lines 213-227: fewer than 3 services found are padded with the first
\* services of service_map not yet found; more than 5 are cut to 5
RECURSIVE Padded(_, _)
Padded(found, map) ==
    IF Cardinality(found) > MaxServices
    THEN CHOOSE five \in SUBSET found : Cardinality(five) = MaxServices
    ELSE IF Cardinality(found) >= MinServices \/ map = << >> THEN found
    ELSE Padded(found \cup {Head(map)}, Tail(map))

\* The second loop of handle (lines 135-237): update_or_create by name, which
\* calls Package.save, then services.set
RECURSIVE ImportPackageRows(_, _, _)
ImportPackageRows(pkgs, todo, map) ==
    IF todo = << >> THEN [packages |-> pkgs, result |-> "ok"]
    ELSE LET e == Head(todo)
             linked == IF e.name \in DOMAIN pkgs THEN pkgs[e.name].services
                       ELSE {}
             row == [total_sessions |-> MaxCount, services |-> linked,
                     original_price |-> MaxPrice * 5,
                     price |-> DiscountedPrice(MaxPrice * 5, 20),
                     is_active |-> TRUE]
         IN IF e.name = Missing
            THEN [packages |-> pkgs, result |-> "KeyError"]
            ELSE IF ~e.priced
            THEN ImportPackageRows(pkgs, Tail(todo), map)
            ELSE IF PackageSaveErrors(row) # {}
            THEN [packages |-> Written(pkgs, e.name, row),
                  result |-> "ValidationError"]
            ELSE ImportPackageRows(
                     Written(pkgs, e.name,
                             [row EXCEPT !.services =
                                 Padded(e.found \cap Range(map), map)]),
                     Tail(todo), map)

\* The two loops, inside transaction.atomic (line 93): an exception rolls
\* back to the tables as they were when the block was entered
ImportAtomic(svcs, pkgs, file) ==
    LET s == ImportServiceRows(svcs, file.services, << >>)
        p == ImportPackageRows(pkgs, file.packages, s.map)
    IN IF s.result # "ok"
       THEN [services |-> svcs, packages |-> pkgs, result |-> s.result]
       ELSE IF p.result # "ok"
       THEN [services |-> svcs, packages |-> pkgs, result |-> p.result]
       ELSE [services |-> s.services, packages |-> p.packages, result |-> "ok"]

\* import_services [--clear] --file file: the deletions of --clear (lines
\* 85-89) are made before transaction.atomic is entered and are committed
\* on their own
ImportOutcome(clear, file) ==
    ImportAtomic(IF clear THEN << >> ELSE services,
                 IF clear THEN << >> ELSE packages, file)

\* The command; Package.objects.all().delete() and
\* Service.objects.all().delete() cascade to the client packages, the
\* service sessions, the appointments and the order items of a service
import_services(clear, file) ==
    LET o == ImportOutcome(clear, file)
    IN /\ services' = o.services
       /\ packages' = o.packages
       /\ last' = [op |-> "import_services", result |-> o.result,
                   clear |-> clear]
       /\ IF clear
          THEN /\ appts' = << >>
               /\ cps' = << >>
               /\ css' = << >>
               /\ items' = [k \in {x \in DOMAIN items :
                                      items[x].service = NoRef} |->
                               [items[k] EXCEPT !.appointment = None]]
          ELSE UNCHANGED <<appts, cps, css, items>>
       /\ UNCHANGED <<web, products, orders>>

\* An empty catalog
InitImport ==
    /\ services = << >>
    /\ packages = << >>
    /\ appts = << >>
    /\ cps = << >>
    /\ css = << >>
    /\ last = Request("none", "ok")
    /\ NoSales
    /\ Quiet

NextImport ==
    \/ \E clear \in BOOLEAN, file \in ImportFiles : import_services(clear, file)
    \/ \E p \in DOMAIN packages, s \in DOMAIN services : RemovePackageService(p, s)
    \/ \E s \in DOMAIN services : DeleteService(s)
    \/ \E c \in ClientIds, p \in DOMAIN packages, today \in Todays :
          CreateClientPackage(c, p, 0, FALSE, NoDate, today)

SpecImport == InitImport /\ [][NextImport]_vars

\* ---------------------------------------------- backup management

\* request.user: not logged in, logged in without is_superuser (whatever the
\* role), and a superuser
Users == {"anonymous", "staff", "superuser"}
Methods == {"GET", "POST"}
BackupViews ==
    {"backup_management", "create_backup", "download_backup", "delete_backup"}

\* The file names backup_system gives to the backups it writes (one per
\* second of the clock)
BackupNames == {"skinova_backup_1.zip", "skinova_backup_2.zip",
                "skinova_backup_3.zip"}

\* The <str:backup_name> of the download and delete URLs (no slash gets
\* through the route): a backup, another zip file, a name with a character
\* outside the allowed ones and a name that is no zip file
Filenames == BackupNames \cup {"other.zip", "my backup.zip", "notes.txt"}

\* re.match(r'^[a-zA-Z0-9._-]+\.zip$', backup_name)
SafeFilename(f) == f \in BackupNames \cup {"other.zip"}

\* @require_POST
PostOnly == {"create_backup", "delete_backup"}

BackupResponse(files, response) == [backups |-> files, response |-> response]

\* What a superuser's request does.  ts is the name backup_system derives
\* from the clock; when it fails it removes the file of that name.
SuperuserRequest(view, f, ts, fails) ==
    IF view = "backup_management" THEN BackupResponse(backups, "200")
    ELSE IF view = "create_backup"
    THEN IF fails THEN BackupResponse(backups \ {ts}, "Error creating backup")
         ELSE BackupResponse(backups \cup {ts}, "Backup created")
    ELSE IF ~SafeFilename(f) THEN BackupResponse(backups, "Invalid filename")
    ELSE IF f \notin backups THEN BackupResponse(backups, "not found")
    ELSE IF view = "download_backup" THEN BackupResponse(backups, "file")
    ELSE BackupResponse(backups \ {f}, "deleted")

\* A faulty delete_backup without the is_superuser test
BackupRequestDeleteUnchecked(view, user, method, f, ts, fails) ==
    IF user = "anonymous" THEN BackupResponse(backups, "redirect login")
    ELSE IF view \in PostOnly /\ method # "POST"
    THEN BackupResponse(backups, "405")
    ELSE IF user # "superuser" /\ view # "delete_backup"
    THEN BackupResponse(backups, "redirect admin:index")
    ELSE SuperuserRequest(view, f, ts, fails)

\* The four backup views: @login_required, then @require_POST, then the
\* is_superuser test each view starts with
BackupRequest(view, user, method, f, ts, fails) ==
    IF user = "anonymous" THEN BackupResponse(backups, "redirect login")
    ELSE IF view \in PostOnly /\ method # "POST"
    THEN BackupResponse(backups, "405")
    ELSE IF user # "superuser"
    THEN BackupResponse(backups, "redirect admin:index")
    ELSE SuperuserRequest(view, f, ts, fails)

BackupView(view, user, method, f, ts, fails) ==
    LET o == BackupRequest(view, user, method, f, ts, fails)
    IN /\ backups' = o.backups
       /\ last' = [op |-> view, result |-> o.response, user |-> user,
                   filename |-> f]
       /\ UNCHANGED <<reqs, pos, services, packages, appts, cps, css>>

backup_management(user, method) ==
    BackupView("backup_management", user, method, "notes.txt",
               "skinova_backup_1.zip", FALSE)

create_backup(user, method, ts, fails) ==
    BackupView("create_backup", user, method, "notes.txt", ts, fails)

download_backup(user, method, f) ==
    BackupView("download_backup", user, method, f, "skinova_backup_1.zip",
               FALSE)

delete_backup(user, method, f) ==
    BackupView("delete_backup", user, method, f, "skinova_backup_1.zip", FALSE)

\* An empty backups directory
InitBackups ==
    /\ InitCatalog
    /\ appts = << >>
    /\ cps = << >>
    /\ css = << >>
    /\ last = Request("none", "ok")
    /\ NoSales
    /\ Quiet

NextBackups ==
    \/ \E user \in Users, method \in Methods : backup_management(user, method)
    \/ \E user \in Users, method \in Methods, ts \in BackupNames,
          fails \in BOOLEAN : create_backup(user, method, ts, fails)
    \/ \E user \in Users, method \in Methods, f \in Filenames :
          download_backup(user, method, f)
    \/ \E user \in Users, method \in Methods, f \in Filenames :
          delete_backup(user, method, f)

SpecBackups == InitBackups /\ [][NextBackups]_vars

\* ------------------------------------------ add-session requests in flight

\* The requests the server works on at one time (one per worker)
ReqIds == {"r1", "r2"}

TableOf(tbl) == IF tbl = "package" THEN cps ELSE css
TargetOf(tbl, rec) == IF tbl = "package" THEN CpTarget(rec) ELSE CsTarget(rec)
ViewOf(tbl) ==
    IF tbl = "package" THEN "add_package_session" ELSE "add_service_session"

\* The worker r is free: it has no request, or has answered its last one
Free(r) == IF r \in DOMAIN reqs THEN reqs[r].pc = "done" ELSE TRUE

\* add_package_session / add_service_session up to the test of is_completed:
\* get_object_or_404 reads row k into the object the request works on.  A
\* completed record is answered at once.
ViewRead(r, tbl, k) ==
    /\ Free(r)
    /\ k \in DOMAIN TableOf(tbl)
    /\ LET rec == TableOf(tbl)[k]
       IN /\ reqs' = Written(reqs, r,
                        [tbl |-> tbl, pk |-> k, rec |-> rec,
                         pc |-> IF rec.is_completed THEN "done" ELSE "read",
                         msg |-> IF rec.is_completed THEN "already completed"
                                 ELSE "none"])
          /\ last' = IF rec.is_completed
                     THEN Request(ViewOf(tbl), "already completed")
                     ELSE Request(ViewOf(tbl), "read")
    /\ UNCHANGED <<backups, pos, services, packages, appts, cps, css>>

\* A faulty add_session that increments the stored row (an F() expression or
\* select_for_update) instead of the object read earlier
SavedRowFromStore(r, today) ==
    LET q == reqs[r]
    IN AddSessionRec(TableOf(q.tbl)[q.pk], TargetOf(q.tbl, q.rec), today)

\* add_session on the object of request r: the count read plus one, the
\* status recomputed; save() then writes every field of the object
SavedRow(r, today) ==
    LET q == reqs[r]
    IN AddSessionRec(q.rec, TargetOf(q.tbl, q.rec), today)

\* The message of the view once add_session has returned
SavedMsg(r) ==
    IF AddSessionRet(reqs[r].rec) THEN "Session added"
    ELSE "Could not add session"

\* The rest of the view: add_session writes the row, the message is shown
ViewSave(r, today) ==
    /\ r \in DOMAIN reqs
    /\ reqs[r].pc = "read"
    /\ IF reqs[r].tbl = "package"
       THEN /\ cps' = [cps EXCEPT ![reqs[r].pk] = SavedRow(r, today)]
            /\ css' = css
       ELSE /\ css' = [css EXCEPT ![reqs[r].pk] = SavedRow(r, today)]
            /\ cps' = cps
    /\ reqs' = [reqs EXCEPT ![r].pc = "done", ![r].msg = SavedMsg(r)]
    /\ last' = Request(ViewOf(reqs[r].tbl), SavedMsg(r))
    /\ UNCHANGED <<backups, pos, services, packages, appts>>

\* The client c1 holds the package pk1 (sv1, sv2) and has the sessions of
\* sv2 tracked, both counters at 0
InitRace ==
    /\ services = [s \in ServiceIds |->
                     [duration |-> 1,
                      sessions_required |-> IF s = "sv1" THEN 1 ELSE MaxCount]]
    /\ packages = [p \in PackageIds |->
                     [total_sessions |-> MaxCount, services |-> {"sv1"}]]
    /\ appts = << >>
    /\ cps = <<NewCounter("c1", "package", "pk1")>>
    /\ css = <<NewCounter("c1", "service", "sv2")>>
    /\ last = Request("none", "ok")
    /\ NoSales
    /\ Quiet

NextRace ==
    \/ \E r \in ReqIds, k \in DOMAIN cps : ViewRead(r, "package", k)
    \/ \E r \in ReqIds, k \in DOMAIN css : ViewRead(r, "service", k)
    \/ \E r \in ReqIds, today \in Todays : ViewSave(r, today)
    \/ \E c \in ClientIds, s \in ServiceIds, st \in TrackingStaff,
          d \in ApptDates, t \in TrackingTimes :
          CreateAppointment(c, s, st, d, t, "confirmed")
    \/ \E i \in DOMAIN appts, today \in Todays :
          \E a \in StatusEdits(appts[i]) :
              \E k \in FirstChoices(a) : EditAppointment(i, a, today, k)

SpecRace == InitRace /\ [][NextRace]_vars

\* ------------------------------------------ booking requests in flight

\* The requests that passed full_clean and have not inserted their row yet
Validated == {r \in DOMAIN reqs : reqs[r].pc = "validated"}

\* Appointment.save of a new appointment up to full_clean (line 545): clean
\* scans the stored appointments, validate_constraints looks for the slot
BookValidate(r, a) ==
    LET errs == FullCleanErrors(a, None)
    IN /\ Free(r)
       /\ Len(appts) + Cardinality(Validated) < MaxAppts
       /\ reqs' = Written(reqs, r,
                     [tbl |-> "appointment", pk |-> None, rec |-> a,
                      pc |-> IF errs = {} THEN "validated" ELSE "done",
                      msg |-> ErrorText(errs)])
       /\ last' = Request("create", IF errs = {} THEN "validated"
                                    ELSE ErrorText(errs))
       /\ UNCHANGED <<backups, pos, services, packages, appts, cps, css>>

\* super().save() (line 546): the INSERT; the database refuses a second row
\* for the same staff, date and start time (unique_staff_datetime)
InsertOutcome(r) ==
    IF UniqueViolation(reqs[r].rec, None)
    THEN [appts |-> appts, msg |-> "IntegrityError"]
    ELSE [appts |-> Append(appts, reqs[r].rec), msg |-> "ok"]

\* The rest of Appointment.save for a new appointment: the row is inserted,
\* is_new keeps the session tracking off
BookInsert(r) ==
    /\ r \in Validated
    /\ appts' = InsertOutcome(r).appts
    /\ reqs' = [reqs EXCEPT ![r].pc = "done", ![r].msg = InsertOutcome(r).msg]
    /\ last' = Request("create", InsertOutcome(r).msg)
    /\ UNCHANGED <<backups, pos, services, packages, cps, css>>

NextBooking ==
    \/ \E r \in ReqIds, a \in
          {NewAppt(c, s, st, d, t, status) :
              c \in ClientIds, s \in ServiceIds, st \in TrackingStaff,
              d \in ApptDates, t \in Times, status \in STATUS_CHOICES} :
          BookValidate(r, a)
    \/ \E r \in ReqIds : BookInsert(r)

SpecBooking == InitAppointments /\ [][NextBooking]_vars

\* ------------------------------------- sessions added by hand and by save

\* The operations that advance a counter: add_session called on the record,
\* the add-session views, and the appointments of SpecTracking
NextSessions ==
    \/ NextTracking
    \/ \E k \in DOMAIN cps, today \in Todays : ClientPackageAddSession(k, today)
    \/ \E k \in DOMAIN css, today \in Todays : ClientServiceSessionAddSession(k, today)
    \/ \E k \in DOMAIN cps, today \in Todays : add_package_session(k, today)
    \/ \E k \in DOMAIN css, today \in Todays : add_service_session(k, today)

SpecSessions == InitTracking /\ [][NextSessions]_vars

\* --------------------------------------- the nesting of Appointment.save

\* The deepest nesting of save inside save that is followed
MaxNesting == 3

\* The tables while a save runs, with the number of saves entered from
\* _auto_track_session (nested), the number of times _auto_track_session was
\* entered (tracks), and whether the nesting was cut at MaxNesting
Saving(ap, cp, cs) ==
    [appts |-> ap, cps |-> cp, css |-> cs, nested |-> 0, tracks |-> 0,
     raised |-> FALSE, cut |-> FALSE]

RECURSIVE SaveFrom(_, _, _, _, _)

\* self.save(update_fields=[...]) called from _auto_track_session: full_clean
\* runs again on the row, then the save goes on as any other
NestedSave(t, i, today, k) ==
    IF t.nested >= MaxNesting THEN [t EXCEPT !.cut = TRUE]
    ELSE IF FullCleanErrors(t.appts[i], i) # {} THEN [t EXCEPT !.raised = TRUE]
    ELSE SaveFrom([t EXCEPT !.nested = @ + 1], i, FALSE, today, k)

\* A faulty _auto_track_session that calls save without having set the link
\* on the appointment
AutoTrackFromUnlinked(t, i, today, k) ==
    LET a == t.appts[i]
        active == ActivePackages(t.cps, a)
        u == [t EXCEPT !.tracks = @ + 1]
    IN IF active # {}
       THEN LET first == IF k \in active THEN k ELSE CHOOSE x \in active : TRUE
            IN NestedSave([u EXCEPT !.cps = CpAdd(t.cps, first, today)],
                          i, today, k)
       ELSE IF services[a.service].sessions_required > 1
       THEN LET found == RowsOf(t.css, "service", a.client, a.service)
                fresh == NewCounter(a.client, "service", a.service)
                cs0 == IF found = {}
                       THEN Append(t.css,
                                   SaveCounter(fresh, CsTarget(fresh), today))
                       ELSE t.css
                j == IF found = {} THEN Len(cs0) ELSE CHOOSE x \in found : TRUE
            IN IF ~cs0[j].is_completed
               THEN NestedSave([u EXCEPT !.css = CsAdd(cs0, j, today)],
                               i, today, k)
               ELSE [u EXCEPT !.css = cs0]
       ELSE u

\* Appointment._auto_track_session (lines 560-587) for row i; k is the row
\* active_packages.first() returns
AutoTrackFrom(t, i, today, k) ==
    LET a == t.appts[i]
        u == [t EXCEPT !.tracks = @ + 1]
    IN IF ActivePackages(t.cps, a) # {}
       THEN NestedSave([u EXCEPT !.appts[i].client_package = k,
                                 !.cps = CpAdd(t.cps, k, today)],
                       i, today, k)
       ELSE IF services[a.service].sessions_required > 1
       THEN LET found == RowsOf(t.css, "service", a.client, a.service)
                fresh == NewCounter(a.client, "service", a.service)
                cs0 == IF found = {}
                       THEN Append(t.css,
                                   SaveCounter(fresh, CsTarget(fresh), today))
                       ELSE t.css
                j == IF found = {} THEN Len(cs0) ELSE CHOOSE x \in found : TRUE
            IN IF ~cs0[j].is_completed
               THEN NestedSave([u EXCEPT !.appts[i].client_service_session = j,
                                         !.css = CsAdd(cs0, j, today)],
                               i, today, k)
               ELSE [u EXCEPT !.css = cs0]
       ELSE u

\* Appointment.save from line 548 on, after full_clean passed and
\* super().save() wrote row i
SaveFrom(t, i, is_new, today, k) ==
    LET a == t.appts[i]
    IN IF a.status = "completed" /\ ~is_new
       THEN IF a.client_package # None
            THEN [t EXCEPT !.cps = CpAdd(t.cps, a.client_package, today)]
            ELSE IF a.client_service_session # None
            THEN [t EXCEPT !.css = CsAdd(t.css, a.client_service_session, today)]
            ELSE AutoTrackFrom(t, i, today, k)
       ELSE t

\* The admin change form of an appointment with any status, service and
\* links
AnySave(r) ==
    {[r EXCEPT !.status = st, !.service = s, !.client_package = p,
               !.client_service_session = q] :
        st \in STATUS_CHOICES, s \in ServiceIds, p \in {None} \cup DOMAIN cps,
        q \in {None} \cup DOMAIN css}

\* ------------------------------------------------ properties: overlap guard

\* The instants of the half-open interval [time, time + service.duration)
Slots(a) == {x \in 0..(MaxTime + MaxDuration) : StartOf(a) <= x /\ x < EndOf(a)}

SameStaffDay(a, b) ==
    a.staff = b.staff /\ a.appointment_date = b.appointment_date

\* a and b are booked for the same staff member and day and share an instant
Intersect(a, b) == SameStaffDay(a, b) /\ Slots(a) \cap Slots(b) # {}

\* a starts when b ends, or ends when b starts
Adjacent(a, b) ==
    SameStaffDay(a, b) /\ (StartOf(a) = EndOf(b) \/ EndOf(a) = StartOf(b))

IsActive(a) == a.status \in ActiveStatuses

SameStart(a, b) ==
    SameStaffDay(a, b) /\ a.appointment_time = b.appointment_time

Others(pk) == DOMAIN appts \ {pk}

\* C1: in every reachable state no two pending or confirmed appointments of
\* the same staff member and date have intersecting intervals.
C1_NoActiveOverlap ==
    \A i, j \in DOMAIN appts :
        (i < j /\ IsActive(appts[i]) /\ IsActive(appts[j]))
            => ~Intersect(appts[i], appts[j])

NewAppts ==
    {NewAppt(c, s, st, d, t, status) :
        c \in ClientIds, s \in ServiceIds, st \in StaffIds, d \in ApptDates,
        t \in Times, status \in STATUS_CHOICES}

Stored(o) == <<o.appts, o.cps, o.css>>

\* C2: creating an appointment whose interval intersects that of an active
\* appointment of the same staff member and date is rejected with a
\* validation failure and changes neither the appointments nor any counter.
C2_OverlappingCreateRejected ==
    \A a \in NewAppts :
        (\E i \in DOMAIN appts : IsActive(appts[i]) /\ Intersect(a, appts[i]))
            => /\ CreateOutcome(a).last.result \in {"overlap", "overlap+unique"}
               /\ Stored(CreateOutcome(a)) = <<appts, cps, css>>

C2_Witness ==
    /\ last = Request("create", "overlap")
    /\ \E i \in DOMAIN appts : IsActive(appts[i])
    /\ Len(appts) < MaxAppts
    /\ Len(css) > 0

C4_InactiveNeverBlocks ==
    \A a \in NewAppts :
        (/\ \E i \in DOMAIN appts : ~IsActive(appts[i]) /\ Intersect(a, appts[i])
         /\ \A i \in DOMAIN appts : IsActive(appts[i]) => ~Intersect(a, appts[i]))
            => /\ CreateOutcome(a).last.result = "ok"
               /\ CreateOutcome(a).appts = Append(appts, a)

Consistent(rec, target) ==
    rec.is_completed <=> (rec.sessions_completed >= target)

\* C6: every stored ClientPackage has is_completed exactly when
\* sessions_completed >= package.total_sessions, and every stored
\* ClientServiceSession exactly when sessions_completed >=
\* service.sessions_required.
C6_CompletedIffTargetReached ==
    /\ \A k \in DOMAIN cps : Consistent(cps[k], CpTarget(cps[k]))
    /\ \A k \in DOMAIN css : Consistent(css[k], CsTarget(css[k]))

\* add_session on a record that is not completed
AddsOne(rec, target, today) ==
    LET r == AddSessionRec(rec, target, today)
    IN /\ AddSessionRet(rec)
       /\ r.sessions_completed = rec.sessions_completed + 1
       /\ r.is_completed <=> (rec.sessions_completed + 1 >= target)
       /\ r.is_completed => r.completed_date # NoDate
       /\ r.client = rec.client

\* C7: add_session on a counter that is not completed adds exactly 1 to
\* sessions_completed and returns True; the record is completed, with a
\* completed_date, exactly when the new count reaches the target.
C7_AddSessionAddsOne ==
    \A today \in Todays :
        /\ \A k \in DOMAIN cps :
              ~cps[k].is_completed => AddsOne(cps[k], CpTarget(cps[k]), today)
        /\ \A k \in DOMAIN css :
              ~css[k].is_completed => AddsOne(css[k], CsTarget(css[k]), today)

C7_Witness ==
    /\ last = Request("cp_add_session", "True")
    /\ \E k \in DOMAIN cps :
          /\ cps[k].is_completed
          /\ cps[k].sessions_completed = CpTarget(cps[k])
          /\ cps[k].completed_date \in Todays
          /\ CpTarget(cps[k]) = MaxTarget

\* add_session and the add-session view on a completed record
NoOpWhenCompleted(rec, target, today) ==
    /\ ~AddSessionRet(rec)
    /\ AddSessionRec(rec, target, today) = rec
    /\ AddSessionView(rec, target, today).rec = rec
    /\ AddSessionView(rec, target, today).msg = "already completed"

\* C8: add_session on a completed ClientPackage or ClientServiceSession
\* returns False and leaves the record as it is; the view answers 'already
\* completed' and leaves the record as it is.
C8_CompletedAddSessionIsNoOp ==
    \A today \in Todays :
        /\ \A k \in DOMAIN cps :
              cps[k].is_completed
                  => NoOpWhenCompleted(cps[k], CpTarget(cps[k]), today)
        /\ \A k \in DOMAIN css :
              css[k].is_completed
                  => NoOpWhenCompleted(css[k], CsTarget(css[k]), today)

C8_Witness ==
    /\ last = Request("add_package_session", "already completed")
    /\ \E k \in DOMAIN cps : cps[k].is_completed

\* C9: a stored ClientPackage or ClientServiceSession that is completed has a
\* completed_date.
C9_CompletedHasDate ==
    /\ \A k \in DOMAIN cps : cps[k].is_completed => cps[k].completed_date # NoDate
    /\ \A k \in DOMAIN css : css[k].is_completed => css[k].completed_date # NoDate

\* Writing sessions_completed = n into a stored record and saving it
WriteCount(rec, n, target, today) ==
    SaveCounter([rec EXCEPT !.sessions_completed = n], target, today)

SavingAgainChangesNothing(r, target) ==
    \A today \in Todays : SaveCounter(r, target, today) = r

\* C10 as stated: a count >= target yields is_completed, a count < target
\* yields not is_completed and no completed_date, and a second save changes
\* nothing.
RecomputesAndClears(rec, target) ==
    \A n \in Counts, today \in Todays :
        LET r == WriteCount(rec, n, target, today)
        IN /\ r.sessions_completed = n
           /\ (n >= target) => r.is_completed
           /\ (n < target) => (~r.is_completed /\ r.completed_date = NoDate)
           /\ SavingAgainChangesNothing(r, target)

C10_SaveRecomputesStatus ==
    /\ \A k \in DOMAIN cps : RecomputesAndClears(cps[k], CpTarget(cps[k]))
    /\ \A k \in DOMAIN css : RecomputesAndClears(css[k], CsTarget(css[k]))

\* C10 as amended: a count >= target yields is_completed; a count < target
\* yields not is_completed, with completed_date cleared if the record was
\* stored as completed and left as stored otherwise; a second save changes
\* nothing.
RecomputesStatus(rec, target) ==
    \A n \in Counts, today \in Todays :
        LET r == WriteCount(rec, n, target, today)
        IN /\ r.sessions_completed = n
           /\ (n >= target) => r.is_completed
           /\ (n < target) =>
                 /\ ~r.is_completed
                 /\ r.completed_date =
                       IF rec.is_completed THEN NoDate ELSE rec.completed_date
           /\ SavingAgainChangesNothing(r, target)

C10_SaveRecomputesStatusAmended ==
    /\ \A k \in DOMAIN cps : RecomputesStatus(cps[k], CpTarget(cps[k]))
    /\ \A k \in DOMAIN css : RecomputesStatus(css[k], CsTarget(css[k]))

C10_Witness ==
    /\ last = Request("admin_cp", "reopened")
    /\ \E k \in DOMAIN cps :
          /\ ~cps[k].is_completed
          /\ cps[k].completed_date = NoDate
          /\ cps[k].sessions_completed < CpTarget(cps[k])
          /\ cps[k].sessions_completed > 0

\* ------------------------------------- properties: completion auto-tracking

Unlinked(a) == a.client_package = None /\ a.client_service_session = None

\* The saves of stored appointment i that full_clean lets through
AcceptedEdits(i) == {a \in TrackingEdits(appts[i]) : FullCleanErrors(a, i) = {}}

\* C11: saving an existing appointment that carries no link with status
\* completed, while the client has an incomplete ClientPackage whose package
\* includes the service, links the appointment to that ClientPackage and
\* raises its sessions_completed by exactly 1.
C11_CompletionAddsOneToPackage ==
    \A i \in DOMAIN appts, today \in Todays :
        \A a \in AcceptedEdits(i) : \A k \in FirstChoices(a) :
            (a.status = "completed" /\ Unlinked(a) /\ ActivePackages(cps, a) # {})
                => LET o == EditOutcome(i, a, today, k)
                   IN /\ o.appts[i].client_package = k
                      /\ o.cps[k].sessions_completed
                            = cps[k].sessions_completed + 1

SessionCounts(tbl) == [k \in DOMAIN tbl |-> tbl[k].sessions_completed]

\* C12: an appointment contributes a session only when its status changes to
\* completed: saving an appointment that is stored as completed and stays
\* completed advances no counter.
C12_SavingCompletedAddsNothing ==
    \A i \in DOMAIN appts, today \in Todays :
        \A a \in AcceptedEdits(i) : \A k \in FirstChoices(a) :
            (appts[i].status = "completed" /\ a.status = "completed")
                => LET o == EditOutcome(i, a, today, k)
                   IN /\ SessionCounts(o.cps) = SessionCounts(cps)
                      /\ SessionCounts(o.css) = SessionCounts(css)

\* The service branch of the tracking, as the outcome o of saving a into row i
ServiceSessionAdvancedByOne(i, a, o) ==
    LET found == RowsOf(css, "service", a.client, a.service)
    IN /\ o.cps = cps
       /\ IF services[a.service].sessions_required > 1
          THEN IF found = {}
               THEN /\ Len(o.css) = Len(css) + 1
                    /\ \A j \in DOMAIN css : o.css[j] = css[j]
                    /\ o.css[Len(o.css)].client = a.client
                    /\ o.css[Len(o.css)].service = a.service
                    /\ o.css[Len(o.css)].sessions_completed = 1
                    /\ o.appts[i].client_service_session = Len(o.css)
               ELSE \A j \in found :
                       IF css[j].is_completed
                       THEN o.css = css /\ o.appts[i] = a
                       ELSE /\ o.css = [css EXCEPT ![j] = o.css[j]]
                            /\ o.css[j].sessions_completed
                                  = css[j].sessions_completed + 1
                            /\ o.appts[i].client_service_session = j
          ELSE o.css = css /\ o.appts[i] = a

\* C13: completing an existing unlinked appointment while no incomplete
\* ClientPackage of the client includes its service: if sessions_required > 1
\* the ClientServiceSession of (client, service) is found or created, linked
\* and advanced by exactly 1 (nothing changes if it is completed already);
\* if sessions_required <= 1 no counter is created or changed.
C13_CompletionAddsOneToServiceSession ==
    \A i \in DOMAIN appts, today \in Todays :
        \A a \in AcceptedEdits(i) : \A k \in FirstChoices(a) :
            (a.status = "completed" /\ Unlinked(a) /\ ActivePackages(cps, a) = {})
                => ServiceSessionAdvancedByOne(i, a, EditOutcome(i, a, today, k))

\* The tracking records that differ between the stored tables and outcome o
ChangedCounters(o) ==
    {<<"cp", k>> : k \in {x \in DOMAIN o.cps :
                            x \notin DOMAIN cps \/ o.cps[x] # cps[x]}}
        \cup {<<"cs", k>> : k \in {x \in DOMAIN o.css :
                                x \notin DOMAIN css \/ o.css[x] # css[x]}}

\* C14: saving an appointment as completed changes at most one tracking
\* record; when the appointment is unlinked and an incomplete package of the
\* client includes the service, that record is the package chosen and no
\* service session is touched; no tracking record disappears.
C14_AtMostOneCounterChanged ==
    \A i \in DOMAIN appts, today \in Todays :
        \A a \in AcceptedEdits(i) : \A k \in FirstChoices(a) :
            a.status = "completed"
                => LET o == EditOutcome(i, a, today, k)
                   IN /\ Cardinality(ChangedCounters(o)) <= 1
                      /\ Len(o.cps) = Len(cps)
                      /\ Len(o.css) >= Len(css)
                      /\ (Unlinked(a) /\ ActivePackages(cps, a) # {})
                            => ChangedCounters(o) = {<<"cp", k>>}

C14_Witness ==
    /\ last = Request("edit", "ok")
    /\ \E i \in DOMAIN appts, k, j \in DOMAIN cps :
          /\ k # j
          /\ appts[i].status = "completed"
          /\ appts[i].client_package = k
          /\ appts[i].service \in packages[cps[k].package].services
          /\ appts[i].service \in packages[cps[j].package].services
          /\ cps[k].sessions_completed > 0
          /\ cps[j].sessions_completed = 0
          /\ ~cps[j].is_completed

\* ------------------------------------------- properties: point of sale

\* The sum of quantity x unit_price over the rows pks of its
RECURSIVE SumOfLines(_, _)
SumOfLines(its, pks) ==
    IF pks = {} THEN 0
    ELSE LET k == CHOOSE x \in pks : TRUE
         IN its[k].quantity * its[k].unit_price + SumOfLines(its, pks \ {k})

\* C15: in every reachable state the total_price of each order is the sum of
\* the subtotals of the items attached to it.
C15_TotalIsSumOfSubtotals ==
    \A o \in DOMAIN orders :
        orders[o].total_price = SumSubtotals(items, ItemsOf(items, o))

\* The primary keys a save may be about: a stored row, or None for a new one
SaveTargets == DOMAIN items \cup (IF DOMAIN items # ItemPks THEN {None} ELSE {})

\* C16: right after a successful OrderItem save the stored total_price of
\* the item's order is the sum of quantity x unit_price over all the items
\* the order has then, whatever the total was before (an item removed or
\* moved away earlier included).
C16_SaveRecomputesTotal ==
    \A pk \in SaveTargets : \A it \in ItemInputs :
        LET o == SaveItemOutcome(pk, it)
        IN o.last.result = "ok"
              => o.orders[it.order].total_price
                    = SumOfLines(o.items, ItemsOf(o.items, it.order))

C16_Witness ==
    /\ last = Request("save_item", "ok")
    /\ \E o \in DOMAIN orders :
          /\ Cardinality(ItemsOf(items, o)) = MaxItems
          /\ \A k \in ItemsOf(items, o) : items[k].subtotal > 0
          /\ orders[o].total_price = SumOfLines(items, ItemsOf(items, o))

\* C17: every stored OrderItem has subtotal = quantity x unit_price, and a
\* save stores that value whatever subtotal it was handed.
C17_SubtotalIsQuantityTimesPrice ==
    /\ \A k \in DOMAIN items :
          items[k].subtotal = items[k].quantity * items[k].unit_price
    /\ \A pk \in SaveTargets : \A it \in ItemInputs :
          LET o == SaveItemOutcome(pk, it)
          IN \A k \in DOMAIN o.items :
                o.items[k].subtotal = o.items[k].quantity * o.items[k].unit_price

C17_Witness ==
    /\ last = Request("save_item", "ok")
    /\ \E k \in DOMAIN items :
          /\ items[k].subtotal = MaxQuantity * MaxPrice
          /\ items[k].subtotal \notin SuppliedSubtotals

ExactlyOneOf(it) == (it.product = NoRef) # (it.service = NoRef)

Malformed(it) ==
    \/ ~ExactlyOneOf(it)
    \/ /\ it.service # NoRef
       /\ it.appointment # None
       /\ appts[it.appointment].service # it.service

\* C18: every stored OrderItem references exactly one of product and
\* service; saving an item with neither, with both, or with a service and an
\* appointment of another service is rejected and leaves the stored items
\* and the order totals as they were.
C18_MalformedItemRejected ==
    /\ \A k \in DOMAIN items : ExactlyOneOf(items[k])
    /\ \A pk \in SaveTargets : \A it \in ItemInputs :
          LET o == SaveItemOutcome(pk, it)
          IN Malformed(it)
                => /\ o.last.result = "ValidationError"
                   /\ o.items = items
                   /\ o.orders = orders

C18_Witness ==
    /\ last = Request("save_item", "ValidationError")
    /\ \E k \in DOMAIN items : items[k].subtotal > 0
    /\ \E o \in DOMAIN orders : orders[o].total_price > 0

\* ------------------------------------------ properties: service bundles

\* C19: in every reachable state every stored Package is linked to at least
\* 3 and at most 5 services.
C19_PackageHasThreeToFiveServices ==
    \A p \in DOMAIN packages :
        /\ Cardinality(packages[p].services) >= MinServices
        /\ Cardinality(packages[p].services) <= MaxServices

\* C20: saving a stored Package that is linked to fewer than 3 or more than 5
\* services fails validation and leaves the stored fields of the package as
\* they were, whether or not the caller opened a transaction.
C20_InvalidPackageSaveRejected ==
    \A p \in DOMAIN packages, n \in Targets, atomic \in BOOLEAN :
        (\/ Cardinality(packages[p].services) < MinServices
         \/ Cardinality(packages[p].services) > MaxServices)
            => /\ SavePackageOutcome(p, n, atomic).result = "ValidationError"
               /\ SavePackageOutcome(p, n, atomic).packages = packages

\* ------------------------------------------ properties: one counter per pair

\* No two rows of the table hold the same pair (client, val)
OnePerPair(tbl, key) ==
    \A j, k \in DOMAIN tbl :
        j # k => tbl[j].client # tbl[k].client \/ tbl[j][key] # tbl[k][key]

SamePrices(before, after) ==
    /\ DOMAIN after = DOMAIN before
    /\ \A p \in DOMAIN before :
          /\ after[p].price = before[p].price
          /\ after[p].original_price = before[p].original_price

\* C22: apply_package_discounts is all-or-nothing: if saving any one package
\* fails, as it does for a package with 1 or 2 services, no package's price or
\* original_price differs from what it was before the command.
C22_DiscountsAllOrNothing ==
    \A d \in Discounts :
        /\ ApplyDiscountsOutcome(d).result # "ok"
              => SamePrices(packages, ApplyDiscountsOutcome(d).packages)
        /\ (\E p \in DOMAIN packages :
               Cardinality(packages[p].services) \in {1, 2})
              => /\ ApplyDiscountsOutcome(d).result = "ValidationError"
                 /\ ApplyDiscountsOutcome(d).packages = packages

\* The command failed on pk2 (1 or 2 services) after it had saved a new price
\* and original_price for the valid package pk1
C22_Witness ==
    /\ last = Request("apply_package_discounts", "ValidationError")
    /\ Cardinality(packages["pk1"].services) = MinServices
    /\ Cardinality(packages["pk2"].services) \in {1, 2}
    /\ \E d \in Discounts :
          LET o == DiscountLoop(packages, ByName(DOMAIN packages), d)
          IN /\ o.packages["pk1"].price # packages["pk1"].price
             /\ o.packages["pk1"].original_price
                    # packages["pk1"].original_price

\* ------------------------------------------ properties: catalog import

\* C23: import_services is all-or-nothing: when the import fails part-way,
\* with --clear or without, the stored services and packages are exactly
\* those stored before the command; the deletions of --clear are undone.
C23_ImportAllOrNothing ==
    \A clear \in BOOLEAN, file \in ImportFiles :
        ImportOutcome(clear, file).result # "ok"
            => /\ ImportOutcome(clear, file).services = services
               /\ ImportOutcome(clear, file).packages = packages

\* Without --clear a failed import leaves the services and the packages as
\* they were
ImportWithoutClearAllOrNothing ==
    \A file \in ImportFiles :
        ImportOutcome(FALSE, file).result # "ok"
            => /\ ImportOutcome(FALSE, file).services = services
               /\ ImportOutcome(FALSE, file).packages = packages

\* A failed import --clear has emptied a catalog
ClearedByFailedImport ==
    /\ last.op = "import_services"
    /\ last.result # "ok"
    /\ last.clear
    /\ services = << >>
    /\ packages = << >>

\* ------------------------------------------ properties: backup management

\* C24: backup management is superuser-only: a logged-in user who is not a
\* superuser and requests the list, create, download or delete operation is
\* redirected to the admin index, and the set of backup files is unchanged
\* (create and delete are requested with POST, the method they accept).
C24_BackupsSuperuserOnly ==
    \A view \in BackupViews, method \in Methods, f \in Filenames,
       ts \in BackupNames, fails \in BOOLEAN :
        LET o == BackupRequest(view, "staff", method, f, ts, fails)
        IN /\ o.backups = backups
           /\ (view \in PostOnly => method = "POST")
                 => o.response = "redirect admin:index"

\* A logged-in user without is_superuser asked to delete a backup that
\* exists, and was redirected
C24_Witness ==
    /\ last.op = "delete_backup"
    /\ last.user = "staff"
    /\ last.result = "redirect admin:index"
    /\ last.filename \in backups

\* ------------------------------------------ properties: requests in flight

\* The requests r and q work on the same row and read the same record
SameRead(r, q) ==
    /\ r # q
    /\ reqs[r].tbl = reqs[q].tbl
    /\ reqs[r].pk = reqs[q].pk
    /\ reqs[r].rec = reqs[q].rec

\* C25: two simultaneous add-session requests on the same in-progress counter
\* are not protected from a lost update: when both have read the count n and
\* one has saved and reported success, the other still saves n + 1 and
\* reports success, so the stored count ends 1 higher, not 2.
C25_LostUpdate ==
    \A r, q \in DOMAIN reqs, today \in Todays :
        (/\ SameRead(r, q)
         /\ reqs[r].pc = "read"
         /\ reqs[q].pc = "done"
         /\ reqs[q].msg = "Session added")
            => /\ SavedRow(r, today).sessions_completed
                      = reqs[r].rec.sessions_completed + 1
               /\ SavedMsg(r) = "Session added"

\* Both requests read the same count, both saved and reported success, and
\* the stored count is 1 higher than the count they read
C25_Witness ==
    /\ DOMAIN reqs = ReqIds
    /\ SameRead("r1", "r2")
    /\ \A r \in ReqIds : reqs[r].pc = "done" /\ reqs[r].msg = "Session added"
    /\ last.result = "Session added"
    /\ TableOf(reqs["r1"].tbl)[reqs["r1"].pk].sessions_completed
           = reqs["r1"].rec.sessions_completed + 1

\* The stored count of no row of the table goes down in the step
CountsKept(before, after) ==
    \A k \in DOMAIN before :
        k \in DOMAIN after
            => after[k].sessions_completed >= before[k].sessions_completed

\* C26: sessions_completed is monotone: under any sequence and interleaving
\* of add_session calls and appointment completions the stored
\* sessions_completed of a counter never decreases from one state to the next.
C26_CountNeverDecreases ==
    [][CountsKept(cps, cps') /\ CountsKept(css, css')]_vars

\* ------------------------------------------ properties: concurrent booking

\* C27: the no-overlap guarantee survives concurrent booking: of two
\* interleaved create requests for the same staff member and date with
\* intersecting intervals and different start times at most one is persisted,
\* so no two stored pending or confirmed appointments booked that way
\* intersect.
C27_ConcurrentCreatesNoOverlap ==
    \A i, j \in DOMAIN appts :
        (/\ i < j
         /\ IsActive(appts[i]) /\ IsActive(appts[j])
         /\ ~SameStart(appts[i], appts[j]))
            => ~Intersect(appts[i], appts[j])

\* Two create requests for the same start time are kept apart by the
\* database: no two stored appointments share staff, date and start time
CreatesNeverShareStart ==
    \A i, j \in DOMAIN appts : i < j => ~SameStart(appts[i], appts[j])

\* ------------------------------------------ properties: no overshoot

\* C28: a counter created with sessions_completed = 0 whose target is fixed
\* and positive has 0 <= sessions_completed <= target in every state, after
\* any sequence of add_session calls, add-session view requests and
\* appointment completions.
C28_CountWithinTarget ==
    /\ \A k \in DOMAIN cps :
          /\ 0 <= cps[k].sessions_completed
          /\ cps[k].sessions_completed <= CpTarget(cps[k])
    /\ \A k \in DOMAIN css :
          /\ 0 <= css[k].sessions_completed
          /\ css[k].sessions_completed <= CsTarget(css[k])

\* The view was asked for one more session on a package counter that stands
\* at its target, while a service counter stands at its target as well
C28_Witness ==
    /\ last = Request("add_package_session", "already completed")
    /\ \E k \in DOMAIN cps :
          /\ cps[k].sessions_completed = CpTarget(cps[k])
          /\ CpTarget(cps[k]) = MaxCount
    /\ \E k \in DOMAIN css : css[k].sessions_completed = CsTarget(css[k])

\* ------------------------------------------ properties: nesting of save

\* The save of row i with the fields of a, followed through its nested saves
SaveOf(i, a, is_new, today, k) ==
    SaveFrom(Saving([appts EXCEPT ![i] = a], cps, css), i, is_new, today, k)

\* The save ends after at most one nested save, which _auto_track_session
\* made, and leaves the tables AfterSave computes
EndsAfterOneNestedSave(i, a, is_new, today, k) ==
    LET t == SaveOf(i, a, is_new, today, k)
        r == AfterSave([appts EXCEPT ![i] = a], cps, css, i, is_new, today, k)
    IN /\ ~t.cut
       /\ ~t.raised
       /\ t.nested <= 1
       /\ t.tracks <= 1
       /\ t.nested = 1 => t.tracks = 1
       /\ is_new => t.nested = 0 /\ t.tracks = 0
       /\ Tracked(t.appts, t.cps, t.css) = r

\* C29: Appointment.save always terminates: the save re-entered from
\* _auto_track_session never enters _auto_track_session again, so one
\* external save causes at most one nested save, for every combination of
\* status and links.
C29_SaveNestsAtMostOnce ==
    \A i \in DOMAIN appts, today \in Todays, is_new \in BOOLEAN :
        \A a \in AnySave(appts[i]) : \A k \in FirstChoices(a) :
            FullCleanErrors(a, i) = {}
                => EndsAfterOneNestedSave(i, a, is_new, today, k)

\* A stored appointment whose save as completed enters _auto_track_session
\* and one nested save, both for a package and for a service session
C29_Witness ==
    /\ last = Request("edit", "ok")
    /\ \E i, j \in DOMAIN appts, today \in Todays :
          /\ \E a \in AnySave(appts[i]) : \E k \in FirstChoices(a) :
                /\ k # None
                /\ SaveOf(i, a, FALSE, today, k).nested = 1
          /\ \E a \in AnySave(appts[j]) :
                /\ SaveOf(j, a, FALSE, today, None).nested = 1
          /\ appts[i].status = "completed"
          /\ appts[i].client_package # None

\* ------------------------------------------ properties: created as completed

\* The new appointments the add form can submit, links included
NewApptsWithLinks ==
    {[a EXCEPT !.client_package = p, !.client_service_session = q] :
        a \in NewAppts, p \in {None} \cup DOMAIN cps,
        q \in {None} \cup DOMAIN css}

\* C30: creating a new appointment directly with status completed does not
\* advance, create or link any ClientPackage or ClientServiceSession: the
\* counters are left as they were and the appointment is stored with the
\* links it was given; tracking runs only on saves of an appointment that is
\* already persisted.
C30_CreateCompletedTracksNothing ==
    \A a \in NewApptsWithLinks :
        LET o == CreateOutcome(a)
        IN /\ o.cps = cps
           /\ o.css = css
           /\ o.last.result = "ok" => o.appts = Append(appts, a)
           /\ o.last.result # "ok" => o.appts = appts

\* An appointment was created as completed and stays unlinked, although the
\* client holds an untouched, incomplete package that includes its service
C30_Witness ==
    /\ last = Request("create", "ok")
    /\ appts # << >>
    /\ appts[Len(appts)].status = "completed"
    /\ Unlinked(appts[Len(appts)])
    /\ \E k \in ActivePackages(cps, appts[Len(appts)]) :
          cps[k].sessions_completed = 0
    /\ \A i \in DOMAIN appts : appts[i].status = "completed" => Unlinked(appts[i])

====
